---- MODULE Spec2Model ----
(***************************************************************************)
(* The image customization pipeline of src/main.rs: customize_image, the   *)
(* functions it calls, and the CleanupGuard whose drop unmounts the guest  *)
(* root and disconnects /dev/nbd0.  External programs are the environment: *)
(* each execution yields a std::process::Output that either could not be   *)
(* spawned, exited zero, or exited non-zero with some stderr text.         *)
(***************************************************************************)
EXTENDS Integers, Sequences, FiniteSets, TLC

\* Number of distinct stderr texts a failing tool may print.
MaxStderr == 2

VARIABLES
    pc,             \* position of the run inside customize_image
    proposed,       \* Cli.proposed
    ppa,            \* Cli.ppa: "None" or the PPA name
    image_uri,      \* Cli.image_uri
    layout,         \* partition numbers present in the image
    os_release,     \* the guest's etc/os-release
    cmds,           \* every command line handed to run_command, in order
    failed_output,  \* Output of the process whose failure is being propagated
    cleanup_guard,  \* CleanupGuard.nbd_device_path
    attached,       \* /dev/nbd0 is bound to the working image
    temp_base_dir,  \* the temporary directory exists
    rootfs_is_dir,  \* temp_base_dir/rootfs exists
    mounts,         \* active mounts under rootfs, in mount order
    guest_fs,       \* etc/resolv.conf, etc/resolv.conf.bak and a link target
    guest_fs0,      \* guest_fs as the image shipped it
    sources0,       \* sources as the image shipped them
    backup_taken,   \* configure_dns renamed resolv.conf to resolv.conf.bak
    sources,        \* package-source entries of the guest
    installed,      \* install targets apt-get installed in the guest
    release,        \* release name returned by get_release
    error,          \* the Result the block is returning
    failed_stage,   \* the stage whose error is being propagated
    panicked,       \* the drop of CleanupGuard panicked
    result,         \* what customize_image handed to main
    final_image     \* the output image exists at final_image_path

inputs == <<proposed, ppa, image_uri, layout, os_release, guest_fs0, sources0>>
host   == <<cleanup_guard, attached, temp_base_dir, rootfs_is_dir, mounts>>
guest  == <<guest_fs, backup_taken, sources, installed, release>>
outcome == <<error, failed_stage, failed_output, panicked, result, final_image>>
vars == <<pc, inputs, cmds, host, guest, outcome>>

-----------------------------------------------------------------------------
\* Values

None == "None"
nbd_device_path == "/dev/nbd0"
rootfs_dir == "rootfs"
boot_dir == "rootfs/boot"
boot_efi_dir == "rootfs/boot/efi"
image_path == "vm_image.img"
package_name == "htop"
PpaName == "ppa:owner/name"
ProposedPocket == "proposed"

root_partition == 1
primary_boot_partition == 13
fallback_boot_partition == 13
efi_partition == 15
image_format == "qcow2"

Partitions == {1, 13, 15, 16}

\* Partition tables of the images: root on p1 and the EFI system partition on p15,
\* with no separate boot partition, with boot on p13, or with boot on p16.
Layouts == {{1, 15}, {1, 13, 15}, {1, 15, 16}}

\* format!("{}p<N>", nbd_device_path)
Device(p) ==
    CASE p = 1 -> "/dev/nbd0p1" [] p = 13 -> "/dev/nbd0p13"
      [] p = 15 -> "/dev/nbd0p15" [] p = 16 -> "/dev/nbd0p16"

\* std::process::Output, or the failure to spawn the process at all.
StderrTexts == 1..MaxStderr
Outputs ==
    {[spawned |-> FALSE, success |-> FALSE, stderr |-> 0],
     [spawned |-> TRUE, success |-> TRUE, stderr |-> 0]}
    \cup {[spawned |-> TRUE, success |-> FALSE, stderr |-> s] : s \in StderrTexts}
NoOutput == [spawned |-> FALSE, success |-> FALSE, stderr |-> 0]

\* anyhow::Result<()>
Ok == [ok |-> TRUE, chain |-> <<>>, stderr |-> 0]
Err(msg, stderr) == [ok |-> FALSE, chain |-> <<msg>>, stderr |-> stderr]

\* anyhow::Context::context: an Err gains an outer message and keeps its cause
context(r, msg) == IF r.ok THEN r ELSE [r EXCEPT !.chain = <<msg>> \o @]

\* run_command: a spawn failure and a non-zero exit both become Err; the Err of
\* a non-zero exit carries the caller's message and the captured stderr.
run_command(out, error_msg) ==
    IF ~out.spawned THEN Err("Failed to execute command", 0)
    ELSE IF ~out.success THEN Err(error_msg, out.stderr)
    ELSE Ok

-----------------------------------------------------------------------------
\* The guest's resolver files

ResolvConf == "etc/resolv.conf"
ResolvConfBak == "etc/resolv.conf.bak"
StubResolv == "run/stub-resolv.conf"
GuestPaths == {ResolvConf, ResolvConfBak, StubResolv}

Absent == [kind |-> "absent", data |-> ""]
RegularFile(data) == [kind |-> "file", data |-> data]
Symlink(target) == [kind |-> "symlink", data |-> target]
CustomResolvConf == "nameserver 1.1.1.1\n"

\* Path::is_symlink
is_symlink(fs, p) == fs[p].kind = "symlink"

\* Path::exists follows a symbolic link to its target
exists(fs, p) ==
    \/ fs[p].kind = "file"
    \/ fs[p].kind = "symlink" /\ fs[fs[p].data].kind = "file"

\* fs::rename moves the entry itself (a link stays a link) over the target
rename(fs, from, to) == [fs EXCEPT ![to] = fs[from], ![from] = Absent]

\* fs::write follows a symbolic link and creates or truncates the file
write(fs, p, data) ==
    IF fs[p].kind = "symlink"
    THEN [fs EXCEPT ![fs[p].data] = RegularFile(data)]
    ELSE [fs EXCEPT ![p] = RegularFile(data)]

\* The resolver files an image may ship: resolv.conf absent, a regular file, a link
\* to a stub that exists or a dangling link; a backup left behind or none.
GuestFileSystems ==
    {f \in {[p \in GuestPaths |->
                CASE p = ResolvConf -> r [] p = ResolvConfBak -> b [] p = StubResolv -> s] :
             r \in {Absent, RegularFile("original"), Symlink(StubResolv)},
             b \in {Absent, RegularFile("stale")},
             s \in {Absent, RegularFile("stub")}} :
        f[ResolvConf].kind # "symlink" => f[StubResolv] = Absent}

\* etc/os-release: missing, or a sequence of KEY=value lines
OsLine(key, value, quoted) == [key |-> key, value |-> value, quoted |-> quoted]
MissingFile == [present |-> FALSE, lines |-> <<>>]
OsReleases ==
    {MissingFile,
     [present |-> TRUE, lines |-> <<OsLine("NAME", "Ubuntu", TRUE)>>],
     [present |-> TRUE, lines |-> <<OsLine("NAME", "Ubuntu", TRUE),
                                    OsLine("VERSION_CODENAME", "Noble", TRUE)>>]}

to_lowercase == [s \in {"Ubuntu", "Noble", "noble"} |->
    CASE s = "Ubuntu" -> "ubuntu" [] s = "Noble" -> "noble" [] s = "noble" -> "noble"]

\* get_release: the first VERSION_CODENAME= line, unquoted and lower-cased
get_release(file) ==
    IF ~file.present
    THEN [res |-> Err("Failed to read /etc/os-release", 0), release |-> ""]
    ELSE LET hits == {i \in DOMAIN file.lines : file.lines[i].key = "VERSION_CODENAME"} IN
         IF hits = {}
         THEN [res |-> Err("Failed to determine release name from /etc/os-release", 0),
               release |-> ""]
         ELSE LET first == CHOOSE i \in hits : \A j \in hits : i <= j IN
              [res |-> Ok, release |-> to_lowercase[file.lines[first].value]]

\* image_uri.split('/').last().unwrap().trim_end_matches(".img")
RECURSIVE trim_end_matches(_, _)
trim_end_matches(s, suffix) ==
    IF Len(s) > 0 /\ s[Len(s)] = suffix
    THEN trim_end_matches(SubSeq(s, 1, Len(s) - 1), suffix)
    ELSE s

\* Package sources the image ships beyond its own archive
InitialSources == {{}, {ProposedPocket, PpaName}}

ImageUris ==
    {[remote |-> TRUE, last |-> <<"noble", ".img">>],
     [remote |-> FALSE, last |-> <<"noble", ".img">>]}

image_name == trim_end_matches(image_uri.last, ".img")
proposed_tag == IF proposed THEN <<"_proposed">> ELSE <<>>
final_image_path == image_name \o <<"_", package_name>> \o proposed_tag \o <<".img">>

-----------------------------------------------------------------------------
Init ==
    /\ pc = "fetch"
    /\ proposed \in BOOLEAN
    /\ ppa \in {None, PpaName}
    /\ image_uri \in ImageUris
    /\ layout \in Layouts
    /\ os_release \in OsReleases
    /\ cmds = <<>>
    /\ failed_output = NoOutput
    /\ cleanup_guard = None
    /\ attached = FALSE
    /\ temp_base_dir = TRUE
    /\ rootfs_is_dir = FALSE
    /\ mounts = <<>>
    /\ guest_fs \in GuestFileSystems
    /\ guest_fs0 = guest_fs
    /\ backup_taken = FALSE
    /\ sources \in InitialSources
    /\ sources0 = sources
    /\ installed = {}
    /\ release = ""
    /\ error = Ok
    /\ failed_stage = None
    /\ panicked = FALSE
    /\ result = "running"
    /\ final_image = FALSE

-----------------------------------------------------------------------------
\* The functions customize_image calls

Logged(argv, r) == [argv |-> argv, ok |-> r.ok]

\* What the kernel lets a mount of partition p do: it cannot succeed when the
\* device is not attached or the image has no such partition.
MountOutputs(p) == {o \in Outputs : o.success => (attached /\ p \in layout)}

\* umount -R of a directory nothing is mounted on exits non-zero
UmountOutputs == {o \in Outputs : o.success => mounts # <<>>}

connect_image_to_nbd(o1, o2) ==
    LET r1 == context(run_command(o1, "Failed to load nbd kernel module"),
                      "Failed to load nbd kernel module")
        modprobe == Logged(<<"modprobe", "nbd">>, r1)
        r2 == context(run_command(o2, "Failed to connect image to NBD device"),
                      "Failed to connect image to NBD device")
        connect == Logged(<<"qemu-nbd", "--format", image_format, "--connect",
                            nbd_device_path, image_path>>, r2)
    IN  IF ~r1.ok
        THEN [res |-> r1, log |-> <<modprobe>>, last |-> o1]
        ELSE [res |-> r2, log |-> <<modprobe, connect>>, last |-> o2]

mount_partition(p, mount_point, dir_ok, out) ==
    IF ~dir_ok
    THEN [res |-> Err("Failed to create mount point directory", 0),
          log |-> <<>>, mounted |-> <<>>, last |-> NoOutput]
    ELSE LET r == run_command(out, "Failed to mount") IN
         [res |-> r,
          log |-> <<Logged(<<"mount", Device(p), mount_point>>, r)>>,
          mounted |-> IF r.ok
                      THEN <<[device |-> Device(p), mount_point |-> mount_point]>>
                      ELSE <<>>,
          last |-> out]

configure_dns(fs, rename_ok, write_ok) ==
    LET backup == is_symlink(fs, ResolvConf) \/ exists(fs, ResolvConf)
        fs1 == IF backup THEN rename(fs, ResolvConf, ResolvConfBak) ELSE fs
    IN  IF backup /\ ~rename_ok
        THEN [res |-> Err("Failed to backup resolv.conf", 0), fs |-> fs, backup |-> FALSE]
        ELSE IF ~write_ok
        THEN [res |-> Err("Failed to write custom resolv.conf", 0), fs |-> fs1,
              backup |-> backup]
        ELSE [res |-> Ok, fs |-> write(fs1, ResolvConf, CustomResolvConf),
              backup |-> backup]

restore_dns_Skip(fs, rename_ok) == [res |-> Ok, fs |-> fs]
restore_dns(fs, rename_ok) ==
    IF exists(fs, ResolvConfBak) \/ is_symlink(fs, ResolvConfBak)
    THEN IF rename_ok
         THEN [res |-> Ok, fs |-> rename(fs, ResolvConfBak, ResolvConf)]
         ELSE [res |-> Err("Failed to restore resolv.conf from backup", 0), fs |-> fs]
    ELSE [res |-> Ok, fs |-> fs]

\* systemd-nspawn -D <rootfs> <command...>
nspawn(command) == <<"systemd-nspawn", "-D", rootfs_dir>> \o command

ProposedArgs ==
    <<"--uri", "http://archive.ubuntu.com/ubuntu/", "--pocket", "proposed",
      "--component", "main", "--component", "universe">>

add_ppa_argv(ppa_name) ==
    nspawn(<<"apt-add-repository", "--no-update", "--yes", ppa_name>>)
remove_ppa_argv(ppa_name) ==
    nspawn(<<"apt-add-repository", "--yes", "--remove", ppa_name>>)
enable_proposed_repository_argv ==
    nspawn(<<"apt-add-repository", "--yes", "--no-update">> \o ProposedArgs)
disable_proposed_repository_argv ==
    nspawn(<<"apt-add-repository", "--yes">> \o ProposedArgs \o <<"--remove">>)
apt_get_update_argv == nspawn(<<"apt-get", "update", "-y">>)

\* The install target: format!("{}/{}-proposed", package_name, release) or the bare name
install_target_Bare == <<package_name>>
install_target ==
    IF proposed THEN <<package_name, "/", release, "-proposed">> ELSE <<package_name>>
apt_get_install_argv == nspawn(<<"apt-get", "install", "-y">> \o install_target)

umount_argv == <<"umount", "-R", rootfs_dir>>
disconnect_argv(dev) == <<"qemu-nbd", "--disconnect", dev>>
copy_final_argv == <<"cp", image_path>> \o final_image_path

-----------------------------------------------------------------------------
\* Control flow of customize_image and install_package

\* `?`: an Err leaves the block, which drops the CleanupGuard
Propagate_RestoreFirst(stage, r, out) ==
    /\ error' = r
    /\ failed_stage' = stage
    /\ failed_output' = out
    /\ pc' = IF stage = "install_package" THEN "restore_dns" ELSE "drop_umount"

Propagate(stage, r, out) ==
    /\ error' = r
    /\ failed_stage' = stage
    /\ failed_output' = out
    /\ pc' = "drop_umount"

Continue(next) ==
    /\ pc' = next
    /\ UNCHANGED <<error, failed_stage, failed_output>>

Try_Ignore(stage, r, out, next) == Continue(next)
Try(stage, r, out, next) == IF r.ok THEN Continue(next) ELSE Propagate(stage, r, out)

AfterEnable_SkipUpdate == "apt_install"
AfterEnable == IF ppa # None THEN "add_ppa" ELSE "apt_update"
InstallEntry == IF proposed THEN "enable_proposed" ELSE AfterEnable
AfterDisable == IF ppa # None THEN "remove_ppa" ELSE "restore_dns"
AfterInstall_SkipDisable == "restore_dns"
AfterInstall == IF proposed THEN "disable_proposed" ELSE AfterDisable

\* temp_base_dir is declared before cleanup_guard and outlives the block that
\* owns the guard: it is dropped, and the directory removed, when
\* customize_image returns
TempDirDropsAt_BeforeGuard == "drop_umount"
TempDirDropsAt == "return"

\* The second boot mount: attempted only when the first returned Err
BootRetryNeeded(mount_result) == ~mount_result.ok

\* Whether the Result of the second boot mount is propagated (`let _ =` drops it)
BootRetryPropagates == FALSE

\* cleanup_guard.nbd_device_path is set after connect_image_to_nbd returned Ok
RecordDevice_BeforeConnect(res) == nbd_device_path
RecordDevice(res) == IF res.ok THEN nbd_device_path ELSE cleanup_guard

\* CleanupGuard::drop runs umount -R when rootfs_dir.is_dir()
DropUnmounts_OnSuccessOnly == rootfs_is_dir /\ error.ok
DropUnmounts == rootfs_is_dir

\* CleanupGuard::drop disconnects when a device was recorded
DropDetaches_OnSuccessOnly == cleanup_guard # None /\ error.ok
DropDetaches_ShortCircuit ==
    /\ cleanup_guard # None
    /\ ~(cmds # <<>> /\ cmds[Len(cmds)].argv[1] = "umount" /\ ~cmds[Len(cmds)].ok)
DropDetaches == cleanup_guard # None

\* `.unwrap()` on the Result of the disconnect
DetachUnwrapPanics_Never(r) == FALSE
DetachUnwrapPanics(r) == ~r.ok

fetch_image ==
    /\ pc = "fetch"
    /\ IF image_uri.remote
       THEN \E downloaded \in BOOLEAN :
               /\ Try("download",
                      IF downloaded THEN Ok ELSE Err("Failed to fetch URL", 0),
                      NoOutput, "connect")
               /\ UNCHANGED cmds
       ELSE \E out \in Outputs :
               LET r == run_command(out, "Failed to copy local image file") IN
               /\ cmds' = Append(cmds, Logged(<<"cp", "image_uri", image_path>>, r))
               /\ Try("copy", r, out, "connect")
    /\ UNCHANGED <<inputs, host, guest, panicked, result, final_image>>

attach_image ==
    /\ pc = "connect"
    /\ \E o1, o2 \in Outputs :
          LET c == connect_image_to_nbd(o1, o2) IN
          /\ cmds' = cmds \o c.log
          /\ attached' = c.res.ok
          /\ cleanup_guard' = RecordDevice(c.res)
          /\ Try("connect", c.res, c.last, "create_rootfs")
    /\ UNCHANGED <<inputs, temp_base_dir, rootfs_is_dir, mounts, guest,
                   panicked, result, final_image>>

create_rootfs_dir ==
    /\ pc = "create_rootfs"
    /\ \E created \in BOOLEAN :
          /\ rootfs_is_dir' = created
          /\ Try("create_rootfs",
                 IF created THEN Ok ELSE Err("Failed to create rootfs directory", 0),
                 NoOutput, "mount_root")
    /\ UNCHANGED <<inputs, cmds, cleanup_guard, attached, temp_base_dir,
                   mounts, guest, panicked, result, final_image>>

mount_root ==
    /\ pc = "mount_root"
    /\ \E dir_ok \in BOOLEAN, out \in MountOutputs(root_partition) :
          LET m == mount_partition(root_partition, rootfs_dir, dir_ok, out) IN
          /\ cmds' = cmds \o m.log
          /\ mounts' = mounts \o m.mounted
          /\ Try("mount_root", m.res, m.last, "mount_boot")
    /\ UNCHANGED <<inputs, cleanup_guard, attached, temp_base_dir, rootfs_is_dir,
                   guest, panicked, result, final_image>>

mount_boot ==
    /\ pc = "mount_boot"
    /\ \E dir_ok \in BOOLEAN, out \in MountOutputs(primary_boot_partition) :
          LET m == mount_partition(primary_boot_partition, boot_dir, dir_ok, out) IN
          /\ cmds' = cmds \o m.log
          /\ mounts' = mounts \o m.mounted
          /\ pc' = IF BootRetryNeeded(m.res) THEN "mount_boot_retry" ELSE "mount_efi"
    /\ UNCHANGED <<inputs, cleanup_guard, attached, temp_base_dir, rootfs_is_dir,
                   guest, outcome>>

mount_boot_retry ==
    /\ pc = "mount_boot_retry"
    /\ \E dir_ok \in BOOLEAN, out \in MountOutputs(fallback_boot_partition) :
          LET m == mount_partition(fallback_boot_partition, boot_dir, dir_ok, out) IN
          /\ cmds' = cmds \o m.log
          /\ mounts' = mounts \o m.mounted
          /\ IF BootRetryPropagates
             THEN Try("mount_boot", m.res, m.last, "mount_efi")
             ELSE Continue("mount_efi")
    /\ UNCHANGED <<inputs, cleanup_guard, attached, temp_base_dir, rootfs_is_dir,
                   guest, panicked, result, final_image>>

mount_efi ==
    /\ pc = "mount_efi"
    /\ \E dir_ok \in BOOLEAN, out \in MountOutputs(efi_partition) :
          LET m == mount_partition(efi_partition, boot_efi_dir, dir_ok, out) IN
          /\ cmds' = cmds \o m.log
          /\ mounts' = mounts \o m.mounted
          /\ Try("mount_efi", m.res, m.last, "configure_dns")
    /\ UNCHANGED <<inputs, cleanup_guard, attached, temp_base_dir, rootfs_is_dir,
                   guest, panicked, result, final_image>>

configure_dns_stage ==
    /\ pc = "configure_dns"
    /\ \E rename_ok, write_ok \in BOOLEAN :
          LET c == configure_dns(guest_fs, rename_ok, write_ok) IN
          /\ guest_fs' = c.fs
          /\ backup_taken' = c.backup
          /\ Try("configure_dns", c.res, NoOutput, "get_release")
    /\ UNCHANGED <<inputs, cmds, host, sources, installed, release,
                   panicked, result, final_image>>

get_release_stage ==
    /\ pc = "get_release"
    /\ LET g == get_release(os_release) IN
          /\ release' = g.release
          /\ Try("get_release", g.res, NoOutput, InstallEntry)
    /\ UNCHANGED <<inputs, cmds, host, guest_fs, backup_taken, sources,
                   installed, panicked, result, final_image>>

\* One guest command of install_package: argv is run in the guest, `effect` is
\* what the guest's package sources become when it exits zero.
GuestCommand(at, argv, msg, effect, next) ==
    /\ pc = at
    /\ \E out \in Outputs :
          LET r == run_command(out, msg) IN
          /\ cmds' = Append(cmds, Logged(argv, r))
          /\ sources' = IF r.ok THEN effect ELSE sources
          /\ Try("install_package", r, out, next)
    /\ UNCHANGED <<inputs, host, guest_fs, backup_taken, release,
                   panicked, result, final_image>>

enable_proposed_repository ==
    /\ GuestCommand("enable_proposed", enable_proposed_repository_argv,
                    "Failed to add proposed repository",
                    sources \cup {ProposedPocket}, AfterEnable)
    /\ UNCHANGED installed

add_ppa ==
    /\ GuestCommand("add_ppa", add_ppa_argv(ppa), "Failed to add proposed repository",
                    sources \cup {ppa}, "apt_update")
    /\ UNCHANGED installed

apt_get_update ==
    /\ GuestCommand("apt_update", apt_get_update_argv, "Failed to install package",
                    sources, "apt_install")
    /\ UNCHANGED installed

apt_get_install ==
    /\ GuestCommand("apt_install", apt_get_install_argv, "Failed to install package",
                    sources, AfterInstall)
    /\ installed' = IF pc' = "drop_umount" THEN installed
                    ELSE installed \cup {install_target}

disable_proposed_repository ==
    /\ GuestCommand("disable_proposed", disable_proposed_repository_argv,
                    "Failed to remove proposed repository",
                    sources \ {ProposedPocket}, AfterDisable)
    /\ UNCHANGED installed

remove_ppa ==
    /\ GuestCommand("remove_ppa", remove_ppa_argv(ppa), "Failed to add proposed repository",
                    sources \ {ppa}, "restore_dns")
    /\ UNCHANGED installed

restore_dns_stage ==
    /\ pc = "restore_dns"
    /\ \E rename_ok \in BOOLEAN :
          LET c == restore_dns(guest_fs, rename_ok) IN
          /\ guest_fs' = c.fs
          /\ Try("restore_dns", c.res, NoOutput, "drop_umount")
    /\ UNCHANGED <<inputs, cmds, host, backup_taken, sources, installed,
                   release, panicked, result, final_image>>

-----------------------------------------------------------------------------
\* CleanupGuard::drop, then the rest of customize_image

drop_umount ==
    /\ pc = "drop_umount"
    /\ IF DropUnmounts
       THEN \E out \in UmountOutputs :
               LET r == run_command(out, "Failed to unmount rootfs (during cleanup)") IN
               /\ cmds' = Append(cmds, Logged(umount_argv, r))
               /\ IF r.ok
                  THEN mounts' = <<>>
                  ELSE \E k \in 0..Len(mounts) :
                          /\ k = 0 => mounts = <<>>
                          /\ mounts' = SubSeq(mounts, 1, k)
       ELSE UNCHANGED <<cmds, mounts>>
    /\ pc' = "drop_detach"
    /\ temp_base_dir' = (temp_base_dir /\ pc # TempDirDropsAt)
    /\ rootfs_is_dir' = (rootfs_is_dir /\ pc # TempDirDropsAt)
    /\ UNCHANGED <<inputs, cleanup_guard, attached, guest, outcome>>

drop_detach ==
    /\ pc = "drop_detach"
    /\ IF DropDetaches
       THEN \E out \in Outputs :
               LET r == run_command(out, "Failed to disconnect nbd device (during cleanup)") IN
               /\ cmds' = Append(cmds, Logged(disconnect_argv(cleanup_guard), r))
               /\ attached' = (attached /\ ~r.ok)
               /\ panicked' = DetachUnwrapPanics(r)
       ELSE UNCHANGED <<cmds, attached, panicked>>
    /\ pc' = IF panicked' \/ ~error.ok THEN "return" ELSE "copy_final"
    /\ temp_base_dir' = (temp_base_dir /\ pc # TempDirDropsAt)
    /\ rootfs_is_dir' = (rootfs_is_dir /\ pc # TempDirDropsAt)
    /\ UNCHANGED <<inputs, cleanup_guard, mounts,
                   guest, error, failed_stage, failed_output, result, final_image>>

copy_final_image ==
    /\ pc = "copy_final"
    /\ \E out \in Outputs :
          LET r == run_command(out, "Failed to copy final image.") IN
          /\ cmds' = Append(cmds, Logged(copy_final_argv, r))
          /\ final_image' = r.ok
          /\ error' = r
          /\ failed_stage' = IF r.ok THEN failed_stage ELSE "copy_final"
          /\ failed_output' = IF r.ok THEN failed_output ELSE out
    /\ pc' = "return"
    /\ UNCHANGED <<inputs, host, guest, panicked, result>>

\* Leaving customize_image drops temp_base_dir and hands the Result to main
customize_image_return ==
    /\ pc = "return"
    /\ temp_base_dir' = (temp_base_dir /\ pc # TempDirDropsAt)
    /\ rootfs_is_dir' = (rootfs_is_dir /\ pc # TempDirDropsAt)
    /\ result' = IF panicked THEN "panic" ELSE IF error.ok THEN "Ok" ELSE "Err"
    /\ pc' = "done"
    /\ UNCHANGED <<inputs, cmds, cleanup_guard, attached, mounts, guest,
                   error, failed_stage, failed_output, panicked, final_image>>

\* main: `?` on the Result of customize_image; a panic ends the process with 101
exit_status ==
    CASE result = "Ok" -> 0
      [] result = "Err" -> 1
      [] result = "panic" -> 101
      [] OTHER -> -1

Next ==
    \/ fetch_image
    \/ attach_image
    \/ create_rootfs_dir
    \/ mount_root
    \/ mount_boot
    \/ mount_boot_retry
    \/ mount_efi
    \/ configure_dns_stage
    \/ get_release_stage
    \/ enable_proposed_repository
    \/ add_ppa
    \/ apt_get_update
    \/ apt_get_install
    \/ disable_proposed_repository
    \/ remove_ppa
    \/ restore_dns_stage
    \/ drop_umount
    \/ drop_detach
    \/ copy_final_image
    \/ customize_image_return

Spec == Init /\ [][Next]_vars

-----------------------------------------------------------------------------
\* Reading the command log

Issued(argv) == {i \in DOMAIN cmds : cmds[i].argv = argv}
Count(argv) == Cardinality(Issued(argv))
IsMount(i) == cmds[i].argv[1] = "mount"
Done == pc = "done"

IsConnect(i) == cmds[i].argv[1] = "qemu-nbd" /\ cmds[i].argv[2] = "--format"
IsDisconnect(i) == cmds[i].argv = disconnect_argv(nbd_device_path)
IsUmount(i) == cmds[i].argv = umount_argv
IsMountAt(i, mount_point) == IsMount(i) /\ cmds[i].argv[3] = mount_point
ConnectSucceeded == \E i \in DOMAIN cmds : IsConnect(i) /\ cmds[i].ok
Disconnects == {i \in DOMAIN cmds : IsDisconnect(i)}
Umounts == {i \in DOMAIN cmds : IsUmount(i)}
DropDone == pc \in {"copy_final", "return", "done"}

TypeOK ==
    /\ pc \in {"fetch", "connect", "create_rootfs", "mount_root", "mount_boot",
               "mount_boot_retry", "mount_efi", "configure_dns", "get_release",
               "enable_proposed", "add_ppa", "apt_update", "apt_install",
               "disable_proposed", "remove_ppa", "restore_dns", "drop_umount",
               "drop_detach", "copy_final", "return", "done"}
    /\ cleanup_guard \in {None, nbd_device_path}
    /\ attached \in BOOLEAN
    /\ result \in {"running", "Ok", "Err", "panic"}

-----------------------------------------------------------------------------
\* C1 (as amended): at the end of every run, a disconnect of /dev/nbd0 has been
\* issued exactly once if connect_image_to_nbd succeeded and never if it did not;
\* no binding is active after the run when the connect failed or that disconnect
\* exited zero.
C1_DetachExactlyOnce ==
    /\ Cardinality(Disconnects) <= 1
    /\ Done =>
        /\ ConnectSucceeded => Cardinality(Disconnects) = 1
        /\ ~ConnectSucceeded => Cardinality(Disconnects) = 0 /\ ~attached
        /\ (\E i \in Disconnects : cmds[i].ok) => ~attached

\* C1 as stated: as above, and after every run no block-device binding is active.
C1_Original ==
    Done =>
        /\ ConnectSucceeded => Cardinality(Disconnects) = 1
        /\ ~ConnectSucceeded => Cardinality(Disconnects) = 0
        /\ ~attached

\* A run whose EFI mount failed after a successful connect, ended detached.
C1_Witness ==
    /\ Done
    /\ ConnectSucceeded
    /\ failed_stage = "mount_efi"
    /\ Cardinality(Disconnects) = 1
    /\ ~attached

\* C2: a failing teardown step is never propagated: a run whose stage failed ends
\* by reporting that stage's error, and a run whose stages succeeded is not made
\* a failure or a panic by a failing disconnect.
C2_TeardownFailureNotPropagated ==
    Done =>
        /\ result # "panic"
        /\ (failed_stage # None /\ failed_stage # "copy_final") => result = "Err"
        /\ (failed_stage = None) => result = "Ok"

\* C3 (as amended): whenever the guard is released with a recorded device the
\* disconnect is attempted, also after a failed unmount; the unmount is attempted
\* exactly when the rootfs directory exists, and then before the disconnect, never
\* after it.
C3_UnmountBeforeDetach ==
    /\ \A i \in Umounts : \A j \in Disconnects : i < j
    /\ (pc \in {"copy_final", "return"} /\ cleanup_guard # None) =>
        /\ Cardinality(Disconnects) = 1
        /\ rootfs_is_dir => Cardinality(Umounts) = 1
        /\ ~rootfs_is_dir => Cardinality(Umounts) = 0

\* C3 as stated: every disconnect of a released guard follows an attempted unmount.
C3_Original ==
    \A j \in Disconnects : \E i \in Umounts : i < j

\* The unmount failed and the disconnect was attempted after it.
C3_Witness ==
    /\ pc = "return"
    /\ \E i \in Umounts : \E j \in Disconnects : i < j /\ ~cmds[i].ok

\* C4 (as amended): once a mount has succeeded, wherever the pipeline stops, the
\* teardown issues one recursive unmount of rootfs after every mount command; no
\* mount remains under rootfs when that unmount exited zero.
C4_TeardownUnmounts ==
    (DropDone /\ \E m \in DOMAIN cmds : IsMount(m) /\ cmds[m].ok) =>
        /\ Cardinality(Umounts) = 1
        /\ \A u \in Umounts :
              /\ \A m \in DOMAIN cmds : IsMount(m) => m < u
              /\ cmds[u].ok => mounts = <<>>

\* C4 as stated: ..., so that zero mounts remain under the guest root.
C4_Original ==
    (Done /\ \E m \in DOMAIN cmds : IsMount(m) /\ cmds[m].ok) =>
        /\ Cardinality(Umounts) = 1
        /\ mounts = <<>>

\* Root and EFI were mounted, boot was not, a later stage failed, nothing is left.
C4_Witness ==
    /\ Done
    /\ failed_stage = "install_package"
    /\ \E m \in DOMAIN cmds : IsMountAt(m, rootfs_dir) /\ cmds[m].ok
    /\ \E m \in DOMAIN cmds : IsMountAt(m, boot_efi_dir) /\ cmds[m].ok
    /\ \A m \in DOMAIN cmds : IsMountAt(m, boot_dir) => ~cmds[m].ok
    /\ \E u \in Umounts : cmds[u].ok
    /\ mounts = <<>>

\* C5: when attach fails, no mount command is ever issued, the teardown issues
\* neither an unmount nor a disconnect (no rootfs directory, no device recorded),
\* and the run ends with an error carrying the stderr of the tool that exited
\* non-zero.
C5_AttachFailure ==
    failed_stage = "connect" =>
        /\ \A i \in DOMAIN cmds : ~IsMount(i) /\ ~IsUmount(i) /\ ~IsDisconnect(i)
        /\ cleanup_guard = None
        /\ ~rootfs_is_dir
        /\ ~error.ok
        /\ failed_output.spawned =>
              /\ failed_output.stderr \in StderrTexts
              /\ error.stderr = failed_output.stderr
        /\ Done => result = "Err"

\* qemu-nbd --connect exited non-zero and the run ended with its stderr.
C5_Witness ==
    /\ Done
    /\ failed_stage = "connect"
    /\ \E i \in DOMAIN cmds : IsConnect(i) /\ ~cmds[i].ok
    /\ failed_output.spawned
    /\ error.stderr = failed_output.stderr
    /\ result = "Err"

\* C6: when the boot mount from the primary slot (p13) fails and the alternate
\* slot (p16) is present, the pipeline reaches the EFI mount with rootfs/boot
\* mounted from the alternate slot.
C6_BootFallback ==
    (/\ pc = "mount_efi"
     /\ 16 \in layout
     /\ \E i \in DOMAIN cmds : cmds[i].argv = <<"mount", Device(13), boot_dir>> /\ ~cmds[i].ok)
    => \E k \in DOMAIN mounts :
          mounts[k] = [device |-> Device(16), mount_point |-> boot_dir]

\* C7: a boot mount is attempted only after the root partition is mounted, the
\* EFI mount is attempted only when boot is mounted at rootfs/boot, and a run
\* whose boot mount failed on every slot ends with an error.
C7_MountOrder ==
    /\ \A i \in DOMAIN cmds : IsMountAt(i, boot_dir) =>
          \E j \in 1..(i - 1) : IsMountAt(j, rootfs_dir) /\ cmds[j].ok
    /\ \A i \in DOMAIN cmds : IsMountAt(i, boot_efi_dir) =>
          \E j \in 1..(i - 1) : IsMountAt(j, boot_dir) /\ cmds[j].ok
    /\ (/\ Done
        /\ \E i \in DOMAIN cmds : IsMountAt(i, boot_dir)
        /\ \A i \in DOMAIN cmds : IsMountAt(i, boot_dir) => ~cmds[i].ok)
       => result # "Ok"

\* The boot stage failed: boot mounts were attempted and none succeeded.
BootStageFailed ==
    /\ \E i \in DOMAIN cmds : IsMountAt(i, boot_dir)
    /\ \A i \in DOMAIN cmds : IsMountAt(i, boot_dir) => ~cmds[i].ok

\* C8: whenever a core stage fails the run ends with an error, after the teardown
\* made its unmount and disconnect attempts, and no output image is written: an
\* output image exists only when every stage succeeded.
C8_FailureEndsInError ==
    /\ (Done /\ (failed_stage # None \/ BootStageFailed)) =>
          /\ result # "Ok"
          /\ ~final_image
          /\ cleanup_guard # None => Cardinality(Disconnects) = 1
    /\ final_image => (failed_stage = None /\ ~BootStageFailed)

\* C9: after configure_dns and restore_dns both returned Ok, a guest that shipped
\* etc/resolv.conf (file or link) has it back unchanged and has no
\* etc/resolv.conf.bak; on a guest that shipped none, restore_dns has changed
\* nothing (the resolver file is the one configure_dns wrote, the backup path is
\* as the image shipped it).
C9_ResolverRoundTrip ==
    /\ (pc = "drop_umount" /\ failed_stage = None /\ guest_fs0[ResolvConf] # Absent) =>
          /\ guest_fs[ResolvConf] = guest_fs0[ResolvConf]
          /\ guest_fs[StubResolv] = guest_fs0[StubResolv]
          /\ guest_fs[ResolvConfBak] = Absent
    /\ (pc = "drop_umount" /\ failed_stage = None /\ guest_fs0[ResolvConf] = Absent) =>
          /\ guest_fs[ResolvConf] = RegularFile(CustomResolvConf)
          /\ guest_fs[ResolvConfBak] = guest_fs0[ResolvConfBak]

\* The half of C9 about a guest that shipped a resolver file.
C9_RoundTripExisting ==
    (pc = "drop_umount" /\ failed_stage = None /\ guest_fs0[ResolvConf] # Absent) =>
        /\ guest_fs[ResolvConf] = guest_fs0[ResolvConf]
        /\ guest_fs[StubResolv] = guest_fs0[StubResolv]
        /\ guest_fs[ResolvConfBak] = Absent

\* C10: for every guest, if configure_dns took a backup then a restore_dns that
\* returns Ok has moved it back to etc/resolv.conf; if it took none, a restore_dns
\* that returns Ok leaves etc/resolv.conf and etc/resolv.conf.bak unchanged.
C10_RestoreFrame ==
    [][pc = "restore_dns" =>
          IF backup_taken
          THEN failed_stage' = None =>
                  /\ guest_fs'[ResolvConf] = guest_fs[ResolvConfBak]
                  /\ guest_fs'[ResolvConfBak] = Absent
          ELSE failed_stage' = None => guest_fs' = guest_fs]_vars

\* The half of C10 about a backup that configure_dns took.
C10_BackupMovedBack ==
    [][(pc = "restore_dns" /\ backup_taken /\ failed_stage' = None) =>
          /\ guest_fs'[ResolvConf] = guest_fs[ResolvConfBak]
          /\ guest_fs'[ResolvConf] = guest_fs0[ResolvConf]
          /\ guest_fs'[ResolvConfBak] = Absent]_vars

-----------------------------------------------------------------------------
\* Guest commands in the log

IsCmd(i, argv) == cmds[i].argv = argv
IsEnableProposed(i) == IsCmd(i, enable_proposed_repository_argv)
IsDisableProposed(i) == IsCmd(i, disable_proposed_repository_argv)
IsAddPpa(i) == IsCmd(i, add_ppa_argv(PpaName))
IsRemovePpa(i) == IsCmd(i, remove_ppa_argv(PpaName))
IsUpdate(i) == IsCmd(i, apt_get_update_argv)
IsInstall(i) == cmds[i].argv[1] = "systemd-nspawn" /\ cmds[i].argv[5] = "install"
IsGuestCommand(i) == cmds[i].argv[1] = "systemd-nspawn"

\* C11: whenever the run reports success, every override that was enabled (the
\* proposed pocket, the PPA) has been disabled by a successful matching remove
\* command issued after the successful install.
C11_OverridesDisabledOnSuccess ==
    result = "Ok" =>
        /\ \A e \in DOMAIN cmds : (IsEnableProposed(e) /\ cmds[e].ok) =>
              \E i, d \in DOMAIN cmds :
                 /\ e < i /\ i < d
                 /\ IsInstall(i) /\ cmds[i].ok
                 /\ IsDisableProposed(d) /\ cmds[d].ok
        /\ \A e \in DOMAIN cmds : (IsAddPpa(e) /\ cmds[e].ok) =>
              \E i, d \in DOMAIN cmds :
                 /\ e < i /\ i < d
                 /\ IsInstall(i) /\ cmds[i].ok
                 /\ IsRemovePpa(d) /\ cmds[d].ok
        /\ proposed => \E e \in DOMAIN cmds : IsEnableProposed(e) /\ cmds[e].ok
        /\ ppa # None => \E e \in DOMAIN cmds : IsAddPpa(e) /\ cmds[e].ok

\* A successful run that enabled both the proposed pocket and the PPA.
C11_Witness ==
    /\ result = "Ok"
    /\ proposed
    /\ ppa # None
    /\ \E d \in DOMAIN cmds : IsDisableProposed(d) /\ cmds[d].ok
    /\ \E d \in DOMAIN cmds : IsRemovePpa(d) /\ cmds[d].ok

\* C12: enabling and then disabling a repository leaves the guest's set of
\* package-source entries as it was before the enable, for every set the image
\* ships, one that already holds the proposed pocket or the PPA included.
C12_EnableDisableSymmetric ==
    pc = "restore_dns" => sources = sources0

\* Supporting C12: the sources are as shipped when the image held neither entry.
C12_SymmetricWhenAbsent ==
    (pc = "restore_dns" /\ sources0 \cap {ProposedPocket, PpaName} = {}) =>
        sources = sources0

C14_StagingInstallTarget ==
    /\ (proposed /\ pc = "apt_install") => ProposedPocket \in sources
    /\ (proposed /\ result = "Ok") => ProposedPocket \notin sources
    /\ \A i \in DOMAIN cmds : IsInstall(i) =>
          /\ proposed =>
                cmds[i].argv = nspawn(<<"apt-get", "install", "-y",
                                       package_name, "/", "noble", "-proposed">>)
          /\ ~proposed =>
                cmds[i].argv = nspawn(<<"apt-get", "install", "-y", package_name>>)
    /\ \A t \in installed :
          t = IF proposed THEN <<package_name, "/", "noble", "-proposed">>
                          ELSE <<package_name>>

\* A successful staging run: the package was installed from the proposed pocket
\* and the pocket is gone from the sources.
C14_Witness ==
    /\ Done
    /\ result = "Ok"
    /\ proposed
    /\ <<package_name, "/", "noble", "-proposed">> \in installed
    /\ ProposedPocket \notin sources

\* The stages that read or change the guest's root
GuestStages ==
    {"configure_dns", "get_release", "enable_proposed", "add_ppa", "apt_update",
     "apt_install", "disable_proposed", "remove_ppa", "restore_dns"}
Mounted(p, mount_point) ==
    \E k \in DOMAIN mounts : mounts[k] = [device |-> Device(p), mount_point |-> mount_point]
GuestTouched ==
    \/ guest_fs # guest_fs0
    \/ sources # sources0
    \/ installed # {}
    \/ release # ""
    \/ \E i \in DOMAIN cmds : IsGuestCommand(i)
TeardownBegun == pc \in {"drop_umount", "drop_detach", "copy_final", "return", "done"}

IsCopyFinal(i) == cmds[i].argv = copy_final_argv

\* C16 (as amended): the working image is copied to the final path only after
\* the teardown has issued both the recursive unmount and the disconnect and the
\* disconnect exited zero, so never while the image is attached; it is not
\* mounted at that point when the unmount exited zero.
C16_CopyAfterTeardown ==
    /\ \A c \in DOMAIN cmds : IsCopyFinal(c) =>
          \E u, d \in DOMAIN cmds :
             /\ IsUmount(u) /\ IsDisconnect(d)
             /\ u < d /\ d < c
             /\ cmds[d].ok
    /\ pc = "copy_final" =>
          /\ Umounts # {} /\ Disconnects # {}
          /\ ~attached
          /\ \A u \in Umounts : cmds[u].ok => mounts = <<>>
    /\ final_image => ~attached

\* C16 as stated: ..., never while the image is still attached or mounted.
C16_Original ==
    /\ \A c \in DOMAIN cmds : IsCopyFinal(c) =>
          \E u, d \in DOMAIN cmds : IsUmount(u) /\ IsDisconnect(d) /\ u < c /\ d < c
    /\ pc = "copy_final" => ~attached /\ mounts = <<>>

\* The final copy was made after a successful unmount and disconnect.
C16_Witness ==
    /\ pc = "return"
    /\ final_image
    /\ \E c \in DOMAIN cmds : IsCopyFinal(c) /\ cmds[c].ok
    /\ \E u \in Umounts : cmds[u].ok
    /\ mounts = <<>>
    /\ ~attached

\* The steps of install_package in the order the code issues them
InstallSteps ==
    <<enable_proposed_repository_argv, add_ppa_argv(PpaName), apt_get_update_argv,
      apt_get_install_argv, disable_proposed_repository_argv, remove_ppa_argv(PpaName)>>
StepOf(i) == CHOOSE k \in DOMAIN InstallSteps : cmds[i].argv[4] = InstallSteps[k][4]
                                              /\ cmds[i].argv[5] = InstallSteps[k][5]
                                              /\ cmds[i].argv[6] = InstallSteps[k][6]
HasArg(i, a) == \E k \in DOMAIN cmds[i].argv : cmds[i].argv[k] = a

\* C17: install_package is a linear state machine: the enable commands (carrying
\* --no-update) come before the single apt-get update, which comes before the
\* single apt-get install, which comes before the remove commands; a step is
\* issued only if every earlier step succeeded, and no step is issued twice.
C17_LinearInstall ==
    /\ \A k \in DOMAIN InstallSteps : k # 4 => Count(InstallSteps[k]) <= 1
    /\ Cardinality({i \in DOMAIN cmds : IsInstall(i)}) <= 1
    /\ \A i, j \in DOMAIN cmds :
          (IsGuestCommand(i) /\ IsGuestCommand(j) /\ i < j) =>
              /\ StepOf(i) < StepOf(j)
              /\ cmds[i].ok
    /\ \A i \in DOMAIN cmds :
          /\ (IsEnableProposed(i) \/ IsAddPpa(i)) =>
                HasArg(i, "--no-update") /\ ~HasArg(i, "--remove")
          /\ (IsDisableProposed(i) \/ IsRemovePpa(i)) =>
                HasArg(i, "--remove") /\ ~HasArg(i, "--no-update")
          /\ IsInstall(i) => \E u \in 1..(i - 1) : IsUpdate(u) /\ cmds[u].ok
          /\ IsUpdate(i) =>
                /\ proposed => \E e \in 1..(i - 1) : IsEnableProposed(e) /\ cmds[e].ok
                /\ ppa # None => \E e \in 1..(i - 1) : IsAddPpa(e) /\ cmds[e].ok
          /\ (IsDisableProposed(i) \/ IsRemovePpa(i)) =>
                \E n \in 1..(i - 1) : IsInstall(n) /\ cmds[n].ok
    /\ pc = "restore_dns" =>
          /\ Count(apt_get_update_argv) = 1
          /\ Cardinality({i \in DOMAIN cmds : IsInstall(i)}) = 1

\* All six steps were issued, once each and in order, and install_package returned.
C17_Witness ==
    /\ pc = "restore_dns"
    /\ Cardinality({i \in DOMAIN cmds : IsGuestCommand(i)}) = 6
    /\ \E e, a, u, n, d, r \in DOMAIN cmds :
          /\ IsEnableProposed(e) /\ IsAddPpa(a) /\ IsUpdate(u)
          /\ IsInstall(n) /\ IsDisableProposed(d) /\ IsRemovePpa(r)
          /\ e < a /\ a < u /\ u < n /\ n < d /\ d < r

\* Commands that belong to the pipeline's stages, not to the teardown
IsPipelineCommand(i) == ~IsUmount(i) /\ ~IsDisconnect(i)

\* C18: no retries and immediate abort: after a command of the pipeline fails
\* (attach, a partition mount, a repository command, the metadata refresh, the
\* install) it is not issued again and no later pipeline command is issued; only
\* the teardown's unmount and disconnect follow it.
C18_NoRetryImmediateAbort ==
    \A i \in DOMAIN cmds : (IsPipelineCommand(i) /\ ~cmds[i].ok) =>
        \A j \in DOMAIN cmds : i < j =>
            /\ cmds[j].argv # cmds[i].argv
            /\ IsUmount(j) \/ IsDisconnect(j)

\* Supporting C18: the property holds of every failed command other than the
\* first boot mount and the one that follows it.
C18_AbortExceptBootMount ==
    \A i \in DOMAIN cmds :
        (IsPipelineCommand(i) /\ ~cmds[i].ok /\ ~IsMountAt(i, boot_dir)) =>
            \A j \in DOMAIN cmds : i < j => IsUmount(j) \/ IsDisconnect(j)

IssuedOk(argv) == \E e \in DOMAIN cmds : cmds[e].argv = argv /\ cmds[e].ok
IsRemove(i) == IsDisableProposed(i) \/ IsRemovePpa(i)

\* C19: repository removal is not part of the teardown: when a step of
\* install_package fails after an enable succeeded, the run ends in failure, the
\* enabled source is still among the guest's sources, the teardown issues no
\* repository-remove command, and the resolver override is left in place.
C19_NoRemovalInTeardown ==
    (TeardownBegun /\ failed_stage = "install_package") =>
        /\ (IssuedOk(enable_proposed_repository_argv)
              /\ ~IssuedOk(disable_proposed_repository_argv)) =>
              ProposedPocket \in sources
        /\ (IssuedOk(add_ppa_argv(PpaName))
              /\ ~IssuedOk(remove_ppa_argv(PpaName))) =>
              PpaName \in sources
        /\ \A f \in DOMAIN cmds : (IsGuestCommand(f) /\ ~cmds[f].ok) =>
              \A j \in DOMAIN cmds : f < j => ~IsGuestCommand(j)
        /\ \A u \in Umounts \cup Disconnects : \A j \in DOMAIN cmds :
              u < j => ~IsRemove(j)
        /\ guest_fs[ResolvConf] = RegularFile(CustomResolvConf)
        /\ backup_taken => guest_fs[ResolvConfBak] = guest_fs0[ResolvConf]
        /\ Done => result \in {"Err", "panic"}
        /\ ~final_image

\* The install failed after both the pocket and the PPA were enabled; the run
\* ended with both still in the sources and the custom resolv.conf in place.
C19_Witness ==
    /\ Done
    /\ failed_stage = "install_package"
    /\ \E n \in DOMAIN cmds : IsInstall(n) /\ ~cmds[n].ok
    /\ sources0 = {}
    /\ sources = {ProposedPocket, PpaName}
    /\ backup_taken
    /\ guest_fs[ResolvConf] = RegularFile(CustomResolvConf)
    /\ result = "Err"

RootfsCreated == failed_stage \notin {"download", "copy", "connect", "create_rootfs"}

\* C20: on every exit path (download or copy failure, a failing stage, success)
\* the temporary directory that holds the working image and the rootfs mount
\* point is removed only after the CleanupGuard has made its unmount and its
\* disconnect attempts, never before or between them.
C20_TempDirOutlivesGuard ==
    /\ pc \in {"drop_umount", "drop_detach", "copy_final", "return"} => temp_base_dir
    /\ ~temp_base_dir =>
          /\ Done
          /\ cleanup_guard # None => Cardinality(Disconnects) = 1
          /\ RootfsCreated => Cardinality(Umounts) = 1
    /\ Done => ~temp_base_dir /\ ~rootfs_is_dir
    /\ (\E i \in DOMAIN cmds : IsUmount(i) \/ IsDisconnect(i)) /\ ~DropDone =>
          temp_base_dir /\ (RootfsCreated => rootfs_is_dir)

\* A run whose install failed: the directory was removed after the unmount and
\* the disconnect were both attempted.
C20_Witness ==
    /\ Done
    /\ ~temp_base_dir
    /\ failed_stage = "install_package"
    /\ Cardinality(Umounts) = 1
    /\ Cardinality(Disconnects) = 1

====
